---- MODULE Spec2Model ----
(***************************************************************************)
(* Model of rtl_433_gridstream:                                            *)
(*   src/src/baseband.c            baseband_low_pass_filter,               *)
(*                                 baseband_demod_FM                       *)
(*   src/src/devices/gridstream.c  gridstream_decode                       *)
(*                                                                         *)
(* Three specifications share the module, one per component:               *)
(*   SpecFilter  successive calls of baseband_low_pass_filter on one       *)
(*               FilterState,                                              *)
(*   SpecDemod   successive calls of baseband_demod_FM on one              *)
(*               DemodFM_State,                                            *)
(*   Spec        one run of gridstream_decode on one extracted frame,      *)
(*               statement by statement.                                   *)
(* The components share no state; a specification leaves the variables of  *)
(* the other two at their idle values.                                     *)
(*                                                                         *)
(* C integer semantics: int is 32 bits and no int expression of the model  *)
(* leaves its range; a store to an int16_t keeps the low 16 bits; >> on a  *)
(* negative int is the arithmetic shift (floor); / truncates toward zero.  *)
(***************************************************************************)
EXTENDS Integers, Sequences, FiniteSets, TLC

VARIABLES
    \* ---- baseband_low_pass_filter
    lpf_state,      \* FilterState: [x |-> state->x[0], y |-> state->y[0]]
    lpf_init,       \* the FilterState before the first call
    lpf_in,         \* every input sample handed over so far, in call order
    lpf_out,        \* every output sample produced so far, in call order
    lpf_lens,       \* len of each call so far
    lpf_fault,      \* "none", "oob" (a call read outside x_buf/y_buf), "crash"
    \* ---- baseband_demod_FM
    fm_state,       \* DemodFM_State: [br |-> , bi |-> ]
    fm_init,        \* [state |-> the state, locals |-> the content of the
                    \*  uninitialised locals] at the first call
    fm_in,          \* every IQ sample <<I, Q>> handed over so far
    fm_out,         \* every output sample produced so far
    fm_lens,        \* num_samples of each call so far
    fm_stack,       \* what the last call left in its locals' stack slots
    \* ---- gridstream_decode
    b,              \* the bytes extract_bytes_uart wrote to uint8_t b[]
                    \* (b[0] of the code is b[1] here)
    b_rest,         \* what the bytes of b[] it did not write hold
    decoded_len,    \* result of extract_bytes_uart
    pc,             \* position in gridstream_decode
    stream_len,
    crc,
    crc_count,
    crc_ok,
    crc_calls,      \* one entry per crc16 call: [n |-> nBytes (unsigned, as
                    \*  halves), index |-> index into known_crc_init]
    reads,          \* indices of b read so far (0-based)
    data,           \* data_t *data
    sink,           \* what decoder_output_data was handed, in order
    ret             \* return value of gridstream_decode

lpf_vars == <<lpf_state, lpf_init, lpf_in, lpf_out, lpf_lens, lpf_fault>>
fm_vars  == <<fm_state, fm_init, fm_in, fm_out, fm_lens, fm_stack>>
dec_vars == <<b, b_rest, decoded_len, pc, stream_len, crc, crc_count, crc_ok,
              crc_calls, reads, data, sink, ret>>
vars     == <<lpf_vars, fm_vars, dec_vars>>

(***************************************************************************)
(* Bounds of the model.                                                    *)
(***************************************************************************)
MaxBatch == 3       \* longest batch of one filter call
MaxCalls == 2       \* filter / demodulator calls per behaviour
MaxFmBatch == 2     \* longest batch of one demodulator call

(***************************************************************************)
(* C arithmetic.                                                           *)
(***************************************************************************)
ToInt16(v) ==
    LET m == v % 65536 IN IF m >= 32768 THEN m - 65536 ELSE m

ToUint16(v) == v % 65536

Shr(v, n) == v \div (2 ^ n)

CDiv(v, d) == IF v >= 0 THEN v \div d ELSE -((-v) \div d)

Last(s) == s[Len(s)]

(***************************************************************************)
(* baseband.c: fixed-point constants.                                      *)
(***************************************************************************)
F_SCALE == 15
FILTER_ORDER == 1
\* FIX(x) = (int)(x * S_CONST), S_CONST = 1 << F_SCALE
a1 == 27986         \* a[1]  = FIX(0.85408)
b0 == 2390          \* b[0]  = FIX(0.07296)
b1 == 2390          \* b[1]  = FIX(0.07296)
alp1 == 23807       \* alp[1] = FIX(0.72654)
blp0 == 4480        \* blp[0] = FIX(0.13673)
blp1 == 4480        \* blp[1] = FIX(0.13673)

(***************************************************************************)
(* baseband_low_pass_filter                                                *)
(***************************************************************************)
\* One output sample from the previous output yp, the new input xn and the
\* previous input xp (lines 71 and 73 are the same expression).
LpfSample(yp, xn, xp) ==
    ToInt16(Shr(Shr(a1 * yp, 1) + Shr(b0 * xn, 1) + Shr(b1 * xp, 1),
                F_SCALE - 1))

\* y_buf after the loop: y_buf[0] from the state, y_buf[i] from
\* y_buf[i-1], x_buf[i], x_buf[i-1].
RECURSIVE LpfBuf(_, _, _)
LpfBuf(x_buf, st, n) ==
    IF n = 0 THEN << >>
    ELSE IF n = 1 THEN << LpfSample(st.y, x_buf[1], st.x) >>
    ELSE LET prev == LpfBuf(x_buf, st, n - 1)
         IN  Append(prev, LpfSample(prev[n - 1], x_buf[n], x_buf[n - 1]))

\* The 0-based index both memcpy calls start at.
SaveIndex(len) == len - 1 - FILTER_ORDER

\* Samples a scalar input can take (uint16_t); 32768 = 2 * 128^2 is the
\* largest value envelope_detect produces.
SampleVals == {0, 900, 20000, 32768}

\* What an out-of-bounds read may find.
GarbageVals == {0, -1234}

Batches(vals, maxlen) ==
    UNION {[1..n -> vals] : n \in 1..maxlen}

InitFilterStates == {[x |-> 0, y |-> 0], [x |-> 900, y |-> 450]}

IdleFilter ==
    /\ lpf_state = [x |-> 0, y |-> 0]
    /\ lpf_init = [x |-> 0, y |-> 0]
    /\ lpf_in = << >>
    /\ lpf_out = << >>
    /\ lpf_lens = << >>
    /\ lpf_fault = "none"

\* A call with len > FILTER_ORDER: both memcpy read inside the buffers.
LowPassFilter(x_buf) ==
    LET len == Len(x_buf)
        y_buf == LpfBuf(x_buf, lpf_state, len)
    IN  /\ lpf_fault # "crash"
        /\ Len(lpf_lens) < MaxCalls
        /\ SaveIndex(len) >= 0
        /\ lpf_state' = [x |-> ToInt16(x_buf[SaveIndex(len) + 1]),
                         y |-> y_buf[SaveIndex(len) + 1]]
        /\ lpf_in' = lpf_in \o x_buf
        /\ lpf_out' = lpf_out \o y_buf
        /\ lpf_lens' = Append(lpf_lens, len)
        /\ UNCHANGED <<lpf_init, lpf_fault>>
        /\ UNCHANGED <<fm_vars, dec_vars>>

\* A call with len <= FILTER_ORDER: len - 1 - FILTER_ORDER wraps (uint32_t),
\* both memcpy read outside the buffers: the state gets whatever is there.
LowPassFilterShort(x_buf, gx, gy) ==
    LET len == Len(x_buf)
        y_buf == LpfBuf(x_buf, lpf_state, len)
    IN  /\ lpf_fault # "crash"
        /\ Len(lpf_lens) < MaxCalls
        /\ SaveIndex(len) < 0
        /\ lpf_state' = [x |-> gx, y |-> gy]
        /\ lpf_in' = lpf_in \o x_buf
        /\ lpf_out' = lpf_out \o y_buf
        /\ lpf_lens' = Append(lpf_lens, len)
        /\ lpf_fault' = "oob"
        /\ UNCHANGED lpf_init
        /\ UNCHANGED <<fm_vars, dec_vars>>

\* The same call when the wild read faults.
LowPassFilterCrash(x_buf) ==
    /\ lpf_fault # "crash"
    /\ Len(lpf_lens) < MaxCalls
    /\ SaveIndex(Len(x_buf)) < 0
    /\ lpf_fault' = "crash"
    /\ UNCHANGED <<lpf_state, lpf_init, lpf_in, lpf_out, lpf_lens>>
    /\ UNCHANGED <<fm_vars, dec_vars>>

(***************************************************************************)
(* baseband_demod_FM                                                       *)
(***************************************************************************)
\* One pass of the loop body (lines 98-117). cur holds ar, ai and the four
\* filter locals as the previous pass (or the entry of the call) left them.
DemodStep(cur, iqs) ==
    LET br == cur.ar
        bi == cur.ai
        ar == iqs[1] - 128
        ai == iqs[2] - 128
        pi == ai * br - ar * bi
        xdc == ToInt16(pi)
        ydc == ToInt16(xdc - cur.xdc_old + cur.ydc_old
                       - CDiv(cur.ydc_old, 256))
        xlp == ydc
        ylp == ToInt16(Shr(Shr(alp1 * cur.ylp_old, 1) + Shr(blp0 * xlp, 1)
                           + Shr(blp1 * cur.xlp_old, 1), F_SCALE - 1))
    IN  [ar |-> ar, ai |-> ai, xdc_old |-> xdc, ydc_old |-> ydc,
         xlp_old |-> xlp, ylp_old |-> ylp]

\* The locals after n passes over x_buf.
RECURSIVE DemodLoop(_, _, _)
DemodLoop(x_buf, entry, n) ==
    IF n = 0 THEN entry
    ELSE DemodStep(DemodLoop(x_buf, entry, n - 1), x_buf[n])

\* y_buf[n] = ylp of pass n.
DemodBuf(x_buf, entry) ==
    [n \in 1..Len(x_buf) |-> DemodLoop(x_buf, entry, n).ylp_old]

\* The locals at the entry of the loop: ar, ai pre-fed from the state
\* (line 95); xdc_old, ydc_old, xlp_old, ylp_old are declared without an
\* initialiser (lines 91-92) and hold what their stack slots hold.
DemodEntry(st, loc) ==
    [ar |-> st.br, ai |-> st.bi, xdc_old |-> loc.xdc_old,
     ydc_old |-> loc.ydc_old, xlp_old |-> loc.xlp_old,
     ylp_old |-> loc.ylp_old]

FilterLocals(cur) ==
    [xdc_old |-> cur.xdc_old, ydc_old |-> cur.ydc_old,
     xlp_old |-> cur.xlp_old, ylp_old |-> cur.ylp_old]

\* IQ byte pairs of the inputs: centre, and three points off centre.
IQVals == {<<128, 128>>, <<255, 128>>, <<128, 0>>, <<200, 60>>}

\* Contents the stack slots of the four locals may have at entry, besides
\* what the previous call left there.
StackVals ==
    {[xdc_old |-> 0, ydc_old |-> 0, xlp_old |-> 0, ylp_old |-> 0],
     [xdc_old |-> 32767, ydc_old |-> -20000, xlp_old |-> 511,
      ylp_old |-> -1]}

InitDemodStates == {[br |-> 0, bi |-> 0], [br |-> 127, bi |-> -128]}

IdleDemod ==
    /\ fm_state = [br |-> 0, bi |-> 0]
    /\ fm_init = [state |-> fm_state,
                  locals |-> [xdc_old |-> 0, ydc_old |-> 0, xlp_old |-> 0,
                              ylp_old |-> 0]]
    /\ fm_in = << >>
    /\ fm_out = << >>
    /\ fm_lens = << >>
    /\ fm_stack = fm_init.locals

\* One call. loc is what the uninitialised locals hold at entry.
DemodFM(x_buf, loc) ==
    LET entry == DemodEntry(fm_state, loc)
        final == DemodLoop(x_buf, entry, Len(x_buf))
    IN  /\ Len(fm_lens) < MaxCalls
        /\ fm_state' = [br |-> final.ar, bi |-> final.ai]
        /\ fm_in' = fm_in \o x_buf
        /\ fm_out' = fm_out \o DemodBuf(x_buf, entry)
        /\ fm_lens' = Append(fm_lens, Len(x_buf))
        /\ fm_stack' = FilterLocals(final)
        /\ fm_init' = IF fm_lens = << >>
                      THEN [state |-> fm_state, locals |-> loc]
                      ELSE fm_init
        /\ UNCHANGED <<lpf_vars, dec_vars>>

(***************************************************************************)
(* gridstream.c: helpers of gridstream_decode                              *)
(***************************************************************************)
\* Bitwise operators on non-negative ints of at most w bits.
RECURSIVE Xor(_, _, _)
Xor(x, y, w) ==
    IF w = 0 THEN 0
    ELSE ((x + y) % 2) + 2 * Xor(x \div 2, y \div 2, w - 1)

\* x ^ y on 16-bit operands, four bits at a time from a table of Xor.
XorNibble == [x \in 0..15 |-> [y \in 0..15 |-> Xor(x, y, 4)]]

Xor16(x, y) ==
    XorNibble[x % 16][y % 16]
    + 16 * XorNibble[(x \div 16) % 16][(y \div 16) % 16]
    + 256 * XorNibble[(x \div 256) % 16][(y \div 256) % 16]
    + 4096 * XorNibble[(x \div 4096) % 16][(y \div 4096) % 16]

RECURSIVE Or(_, _, _)
Or(x, y, w) ==
    IF w = 0 THEN 0
    ELSE (IF x % 2 = 1 \/ y % 2 = 1 THEN 1 ELSE 0)
         + 2 * Or(x \div 2, y \div 2, w - 1)

Shl(v, n) == v * (2 ^ n)

\* A 32-bit pattern as its two 16-bit halves (the model's integers are
\* 32-bit signed, so an unsigned 32-bit value is kept as its halves).
Bits32(v) == [hi |-> (v \div 65536) % 65536, lo |-> v % 65536]

\* The pattern read as an int (two's complement).
AsInt(u) == (IF u.hi >= 32768 THEN u.hi - 65536 ELSE u.hi) * 65536 + u.lo

known_crc_init == <<58915, 24534, 54611, 17912, 25281, 9169, 11298, 5162>>
    \* 0xe623, 0x5fd6, 0xD553, 0x45F8, 0x62C1, 0x23D1, 0x2C22, 0x142A

\* sizeof(known_crc_init) / 2
NumSeeds == Len(known_crc_init)

\* crc16(message, nBytes, polynomial, init): bitwise CRC-16, most
\* significant bit first, no reflection, no final xor.
RECURSIVE Crc16Bits(_, _, _)
Crc16Bits(remainder, polynomial, bits) ==
    IF bits = 0 THEN remainder
    ELSE Crc16Bits(IF remainder >= 32768
                   THEN Xor16((remainder * 2) % 65536, polynomial)
                   ELSE remainder * 2,
                   polynomial, bits - 1)

\* The remainder after the bytes message[from .. to] (1-based), starting
\* from remainder: byte by byte in order. The range is halved rather than
\* walked, and the remainder (a uint16_t, never negative) is looked at
\* first, so that the evaluation does not nest once per byte.
RECURSIVE Crc16Range(_, _, _, _, _)
Crc16Range(message, from, to, polynomial, remainder) ==
    IF remainder < 0 \/ from > to THEN remainder
    ELSE IF from = to
    THEN Crc16Bits(Xor16(remainder, Shl(message[from], 8)), polynomial, 8)
    ELSE Crc16Range(message, ((from + to) \div 2) + 1, to, polynomial,
                    Crc16Range(message, from, (from + to) \div 2,
                               polynomial, remainder))

crc16(message, nBytes, polynomial, init) ==
    Crc16Range(message, 1, nBytes, polynomial, init)

\* b[i], 0-based as in C: a byte of the frame, or for i >= decoded_len a
\* byte of the array that was never written (b has no initialiser).
B(i) == IF i < Len(b) THEN b[i + 1] ELSE b_rest

\* &b[from] as a message of n bytes.
Bytes(from, n) == [j \in 1..n |-> B(from + j - 1)]

\* sprintf "%02x" of one byte, and of the bytes at the given indices.
HexDigits ==
    <<"0", "1", "2", "3", "4", "5", "6", "7",
      "8", "9", "a", "b", "c", "d", "e", "f">>

Hex2(v) == HexDigits[(v \div 16) + 1] \o HexDigits[(v % 16) + 1]

RECURSIVE HexOf(_)
HexOf(idx) ==
    IF idx = << >> THEN ""
    ELSE Hex2(B(idx[1])) \o HexOf(Tail(idx))

\* ((uint32_t)b[i] << 24) | (b[i+1] << 16) | (b[i+2] << 8) | b[i+3]:
\* b[i], b[i+1] make the high half, b[i+2], b[i+3] the low half.
BE32(i) ==
    [hi |-> Or(Shl(B(i), 8), B(i + 1), 16),
     lo |-> Or(Shl(B(i + 2), 8), B(i + 3), 16)]

\* (b[i] << 8) | b[i+1], stored to a uint16_t
BE16(i) == ToUint16(Or(Shl(B(i), 8), B(i + 1), 16))

(***************************************************************************)
(* Arguments of data_make, one record per argument the compiler passes.    *)
(***************************************************************************)
StrArg(t) == [k |-> "str", s |-> t, hi |-> 0, lo |-> 0]
IntArg(v) == [k |-> "int", s |-> "", hi |-> Bits32(v).hi, lo |-> Bits32(v).lo]
UintArg(u) == [k |-> "uint", s |-> "", hi |-> u.hi, lo |-> u.lo]
DATA_STRING == [k |-> "type", s |-> "DATA_STRING", hi |-> 0, lo |-> 0]
DATA_INT == [k |-> "type", s |-> "DATA_INT", hi |-> 0, lo |-> 0]
NULL == [k |-> "null", s |-> "", hi |-> 0, lo |-> 0]
\* strftime("%a %Y-%m-%d %H:%M:%S %Z", localtime(&clock)): the text depends
\* on the time zone; the model keeps the clock value it was formatted from.
ClockStr(clock) ==
    [k |-> "str", s |-> "strftime", hi |-> clock.hi, lo |-> clock.lo]

\* Adjacent string literals are one argument: "subtype" "" is "subtype",
\* so that group passes three arguments where the others pass four.
Args55 ==
    <<StrArg("model"), StrArg(""), DATA_STRING, StrArg("LandisGyr GridStream"),
      StrArg("id"), StrArg(""), DATA_STRING, StrArg(HexOf(<<26, 27, 28, 29>>)),
      StrArg("subtype"), DATA_INT, IntArg(B(3)),
      StrArg("wanaddress"), StrArg(""), DATA_STRING,
          StrArg(HexOf(<<13, 14, 15, 16, 17, 18>>)),
      StrArg("destaddress"), StrArg(""), DATA_STRING,
          StrArg(HexOf(<<7, 8, 9, 10, 11, 12>>)),
      StrArg("uptime"), StrArg(""), DATA_INT, UintArg(BE32(20)),
      StrArg("mic"), StrArg(""), DATA_STRING, StrArg("CRC"),
      NULL>>

ArgsD2 ==
    <<StrArg("model"), StrArg(""), DATA_STRING, StrArg("LandisGyr GridStream"),
      StrArg("id"), StrArg(""), DATA_INT, IntArg(0),
      StrArg("subtype"), DATA_INT, IntArg(B(3)),
      StrArg("mic"), StrArg(""), DATA_STRING, StrArg("CRC"),
      NULL>>

ArgsD5 ==
    IF stream_len = 71      \* 0x47
    THEN
    <<StrArg("model"), StrArg(""), DATA_STRING, StrArg("LandisGyr GridStream"),
      StrArg("id"), StrArg(""), DATA_STRING, StrArg(HexOf(<<26, 27, 28, 29>>)),
      StrArg("subtype"), DATA_INT, IntArg(B(3)),
      StrArg("destaddress"), StrArg(""), DATA_STRING,
          StrArg(HexOf(<<7, 8, 9, 10>>)),
      StrArg("timestamp"), StrArg(""), DATA_STRING, ClockStr(BE32(16)),
      StrArg("uptime"), StrArg(""), DATA_INT, UintArg(BE32(24)),
      StrArg("wanaddress"), StrArg(""), DATA_STRING,
          StrArg(HexOf(<<32, 33, 34, 35, 36, 37>>)),
      StrArg("mic"), StrArg(""), DATA_STRING, StrArg("CRC"),
      NULL>>
    ELSE
    <<StrArg("model"), StrArg(""), DATA_STRING, StrArg("LandisGyr GridStream"),
      StrArg("id"), StrArg(""), DATA_STRING, StrArg(HexOf(<<26, 27, 28, 29>>)),
      StrArg("subtype"), DATA_INT, IntArg(B(3)),
      StrArg("destaddress"), StrArg(""), DATA_STRING,
          StrArg(HexOf(<<7, 8, 9, 10>>)),
      StrArg("mic"), StrArg(""), DATA_STRING, StrArg("CRC"),
      NULL>>

\* Indices of b the field extraction of each subtype reads.
FieldReads55 == (7..18) \cup (20..23) \cup (26..29) \cup {3}
FieldReadsD2 == {3}
FieldReadsD5 ==
    IF stream_len = 71
    THEN (7..10) \cup (26..29) \cup (16..19) \cup (24..27) \cup (32..37)
         \cup {3}
    ELSE (7..10) \cup (26..29) \cup {3}

(***************************************************************************)
(* data_make and the record it builds. data.c is not among the sources:    *)
(* the reading of the arguments in groups key, pretty_key, type, value     *)
(* up to NULL is that of the calls in gridstream.c (every group but        *)
(* "subtype" has that shape) and of a DecodedRecord, "a mapping from       *)
(* field name to typed value (string, integer, or formatted timestamp)".   *)
(***************************************************************************)
KnownType(arg) == arg.k = "type" /\ arg.s \in {"DATA_INT", "DATA_STRING"}

\* The value of a field as va_arg reads it: for DATA_INT an int, whatever
\* the signedness of the 32-bit argument.
ArgValue(type, arg) ==
    IF type.s = "DATA_INT"
    THEN [k |-> "int", s |-> "", hi |-> arg.hi, lo |-> arg.lo]
    ELSE arg

GroupOK(args, i) ==
    /\ i + 3 <= Len(args)
    /\ args[i].k = "str"
    /\ args[i + 1].k = "str"
    /\ KnownType(args[i + 2])
    /\ args[i + 3].k \in (IF args[i + 2].s = "DATA_INT" THEN {"int", "uint"}
                        ELSE {"str"})

\* Every group up to NULL has the shape data_make expects.
RECURSIVE WellFormed(_, _)
WellFormed(args, i) ==
    IF i > Len(args) THEN FALSE
    ELSE IF args[i].k = "null" THEN TRUE
    ELSE GroupOK(args, i) /\ WellFormed(args, i + 4)

\* The fields read off the arguments from position i on. A type that is no
\* data type takes no value: the field is kept without one and the next
\* key is read right after it.
RECURSIVE data_fields(_, _)
data_fields(args, i) ==
    IF i > Len(args) \/ args[i].k # "str" THEN << >>
    ELSE IF i + 3 <= Len(args) /\ KnownType(args[i + 2])
    THEN << [key |-> args[i].s, type |-> args[i + 2].s,
             value |-> ArgValue(args[i + 2], args[i + 3])] >>
         \o data_fields(args, i + 4)
    ELSE << [key |-> args[i].s, type |-> "invalid", value |-> NULL] >>
         \o data_fields(args, i + 3)

data_make(args) == [st |-> "rec", fields |-> data_fields(args, 1)]

\* data_t *data before any assignment, and data_make's failure result.
DataUninit == [st |-> "uninit", fields |-> << >>]
DataNull == [st |-> "null", fields |-> << >>]

(***************************************************************************)
(* gridstream_decode, statement by statement                               *)
(***************************************************************************)
\* Offset of the payload: 16-bit length field for 0x55 and 0xD5 (b[4], b[5]),
\* 8-bit for 0xD2 (b[4]).
Hdr == IF B(3) = 210 THEN 5 ELSE 6

\* The guard of line 76 with the bound two bytes too low.
SanityOk_Low(len) == len >= 3

\* line 76
SanityOk(len) == len >= 5

\* lines 82, 121, 150: the guard that lets the frame through
LengthOk(len, hdr, slen) == ~((len - hdr) < slen)

\* lines 94, 133, 162: the condition of the do-while
LoopAgain(count, ok) == count < NumSeeds /\ ok = FALSE

Return(value) ==
    /\ ret' = value
    /\ pc' = "returned"

\* if (decoded_len >= 5) ... else return DECODE_FAIL_SANITY
SanityCheck ==
    /\ pc = "entry"
    /\ IF SanityOk(decoded_len)
       THEN pc' = "switch_type" /\ UNCHANGED ret
       ELSE Return("DECODE_FAIL_SANITY")
    /\ UNCHANGED <<b, b_rest, decoded_len, stream_len, crc, crc_count, crc_ok,
                   crc_calls, reads, data, sink>>
    /\ UNCHANGED <<lpf_vars, fm_vars>>

\* switch (b[2]) { case 0x2A: ... default: return DECODE_ABORT_LENGTH; }
SwitchType ==
    /\ pc = "switch_type"
    /\ reads' = reads \cup {2}
    /\ IF B(2) = 42
       THEN pc' = "switch_subtype" /\ UNCHANGED ret
       ELSE Return("DECODE_ABORT_LENGTH")
    /\ UNCHANGED <<b, b_rest, decoded_len, stream_len, crc, crc_count, crc_ok,
                   crc_calls, data, sink>>
    /\ UNCHANGED <<lpf_vars, fm_vars>>

\* switch (b[3]) { case 0x55: case 0xD2: case 0xD5: } with no default: any
\* other subtype leaves both switches and reaches decoder_output_data.
SwitchSubtype ==
    /\ pc = "switch_subtype"
    /\ reads' = reads \cup {3}
    /\ pc' = IF B(3) \in {85, 210, 213} THEN "length" ELSE "output"
    /\ UNCHANGED <<b, b_rest, decoded_len, stream_len, crc, crc_count, crc_ok,
                   crc_calls, data, sink, ret>>
    /\ UNCHANGED <<lpf_vars, fm_vars>>

\* stream_len = (b[4] << 8) | b[5]  (0x55, 0xD5);  stream_len = b[4]  (0xD2)
\* if ((decoded_len - hdr) < stream_len) return DECODE_ABORT_LENGTH;
ReadLength ==
    /\ pc = "length"
    /\ stream_len' = IF Hdr = 6 THEN BE16(4) ELSE B(4)
    /\ reads' = reads \cup (IF Hdr = 6 THEN {4, 5} ELSE {4})
    /\ IF LengthOk(decoded_len, Hdr, stream_len')
       THEN pc' = "trailer" /\ UNCHANGED ret
       ELSE Return("DECODE_ABORT_LENGTH")
    /\ UNCHANGED <<b, b_rest, decoded_len, crc, crc_count, crc_ok, crc_calls, data,
                   sink>>
    /\ UNCHANGED <<lpf_vars, fm_vars>>

\* crc = (b[hdr - 2 + stream_len] << 8) | b[hdr - 1 + stream_len]
ReadTrailer ==
    /\ pc = "trailer"
    /\ crc' = BE16(Hdr - 2 + stream_len)
    /\ reads' = reads \cup {Hdr - 2 + stream_len, Hdr - 1 + stream_len}
    /\ pc' = "crc_loop"
    /\ UNCHANGED <<b, b_rest, decoded_len, stream_len, crc_count, crc_ok, crc_calls,
                   data, sink, ret>>
    /\ UNCHANGED <<lpf_vars, fm_vars>>

\* known_crc_init[crc_count]; past the table it is whatever follows it.
SeedAt(count) == IF count < NumSeeds THEN known_crc_init[count + 1] ELSE 0

\* One pass of the do-while with stream_len - 2 >= 0.
CrcPass ==
    /\ pc = "crc_loop"
    /\ stream_len - 2 >= 0
    /\ LET n == stream_len - 2
           hit == crc16(Bytes(Hdr, n), n, 4129, SeedAt(crc_count)) = crc
           count == IF hit THEN crc_count ELSE crc_count + 1
       IN  /\ crc_calls' = Append(crc_calls, [n |-> Bits32(n), index |-> crc_count])
           /\ reads' = reads \cup (Hdr..(Hdr + n - 1))
           /\ crc_ok' = hit
           /\ crc_count' = count
           /\ pc' = IF LoopAgain(count, hit) THEN "crc_loop" ELSE "crc_done"
    /\ UNCHANGED <<b, b_rest, decoded_len, stream_len, crc, data, sink, ret>>
    /\ UNCHANGED <<lpf_vars, fm_vars>>

\* One pass with stream_len - 2 < 0 (stream_len 0 or 1): the int converts to
\* crc16's unsigned nBytes, 4294967294 or 4294967295, and crc16 reads that
\* many bytes from &b[hdr] on, far past b (reads keeps them up to the first
\* one past the frame). The pass faults, or returns some value that is the
\* trailer or is not.
CrcPassWild ==
    /\ pc = "crc_loop"
    /\ stream_len - 2 < 0
    /\ crc_calls' = Append(crc_calls, [n |-> Bits32(stream_len - 2),
                                       index |-> crc_count])
    /\ reads' = reads \cup (Hdr..decoded_len)
    /\ \E outcome \in {"fault", "hit", "miss"} :
         IF outcome = "fault"
         THEN Return("crash") /\ UNCHANGED <<crc_ok, crc_count>>
         ELSE LET hit == outcome = "hit"
                  count == IF hit THEN crc_count ELSE crc_count + 1
              IN  /\ crc_ok' = hit
                  /\ crc_count' = count
                  /\ pc' = IF LoopAgain(count, hit) THEN "crc_loop"
                           ELSE "crc_done"
                  /\ UNCHANGED ret
    /\ UNCHANGED <<b, b_rest, decoded_len, stream_len, crc, data, sink>>
    /\ UNCHANGED <<lpf_vars, fm_vars>>

\* if (!crc_ok) return DECODE_FAIL_MIC;
CrcDone ==
    /\ pc = "crc_done"
    /\ IF ~crc_ok
       THEN Return("DECODE_FAIL_MIC")
       ELSE pc' = "make" /\ UNCHANGED ret
    /\ UNCHANGED <<b, b_rest, decoded_len, stream_len, crc, crc_count, crc_ok,
                   crc_calls, reads, data, sink>>
    /\ UNCHANGED <<lpf_vars, fm_vars>>

MakeArgs == CASE B(3) = 85 -> Args55 [] B(3) = 210 -> ArgsD2 [] OTHER -> ArgsD5

MakeReads ==
    CASE B(3) = 85 -> FieldReads55 [] B(3) = 210 -> FieldReadsD2
      [] OTHER -> FieldReadsD5

\* The sprintf / shift lines and data = data_make(...). With arguments
\* data_make cannot read as groups of four its behaviour is undefined: it
\* faults (a pretty_key that is no string), gives up and returns NULL, or
\* builds the fields it can read.
MakeData ==
    /\ pc = "make"
    /\ reads' = reads \cup MakeReads
    /\ \E outcome \in {"fault", "null", "rec"} :
         /\ outcome # "rec" => ~WellFormed(MakeArgs, 1)
         /\ IF outcome = "fault"
            THEN Return("crash") /\ UNCHANGED data
            ELSE /\ data' = IF outcome = "null" THEN DataNull
                            ELSE data_make(MakeArgs)
                 /\ pc' = "output"
                 /\ UNCHANGED ret
    /\ UNCHANGED <<b, b_rest, decoded_len, stream_len, crc, crc_count, crc_ok,
                   crc_calls, sink>>
    /\ UNCHANGED <<lpf_vars, fm_vars>>

\* decoder_output_data(decoder, data); return 1;
OutputData ==
    /\ pc = "output"
    /\ sink' = Append(sink, data)
    /\ Return("1")
    /\ UNCHANGED <<b, b_rest, decoded_len, stream_len, crc, crc_count, crc_ok,
                   crc_calls, reads, data>>
    /\ UNCHANGED <<lpf_vars, fm_vars>>

\* The same call on a data that was never assigned may fault in the sink.
OutputDataWild ==
    /\ pc = "output"
    /\ data.st = "uninit"
    /\ Return("crash")
    /\ UNCHANGED <<b, b_rest, decoded_len, stream_len, crc, crc_count, crc_ok,
                   crc_calls, reads, data, sink>>
    /\ UNCHANGED <<lpf_vars, fm_vars>>

(***************************************************************************)
(* Frames handed to gridstream_decode: what extract_bytes_uart left in b   *)
(* and returned as decoded_len.                                            *)
(***************************************************************************)
\* Payload patterns: every byte below 0x80, every byte 0x80 or above.
Pattern(p, i) ==
    IF p = "low" THEN (17 * i + 3) % 128 ELSE 128 + ((29 * i + 5) % 128)

\* The frame a sender of the given subtype builds for a payload of slen
\* bytes (its last two the CRC under seed number seed, or a wrong CRC when
\* seed = NumSeeds), cut or padded to len bytes.
FrameByte(type, sub, slen, p, seed, i) ==
    LET hdr == IF sub = 210 THEN 5 ELSE 6
        n == slen - 2
        body == [j \in 1..n |-> Pattern(p, hdr + j - 1)]
        good == crc16(body, n, 4129, SeedAt(seed % NumSeeds))
        trailer == IF seed < NumSeeds THEN good ELSE Xor16(good, 1)
    IN  CASE i = 2 -> type
          [] i = 3 -> sub
          [] i = 4 -> IF hdr = 6 THEN slen \div 256 ELSE slen
          [] i = 5 /\ hdr = 6 -> slen % 256
          [] i >= hdr /\ n >= 0 /\ i = hdr + n -> trailer \div 256
          [] i >= hdr /\ n >= 0 /\ i = hdr + n + 1 -> trailer % 256
          [] OTHER -> Pattern(p, i)

\* The len bytes extract_bytes_uart writes (none when it fails).
Buffer(type, sub, slen, p, seed, len) ==
    [j \in 1..len |-> FrameByte(type, sub, slen, p, seed, j - 1)]

Subtypes == {85, 210, 213, 0}           \* 0x55, 0xD2, 0xD5, an unknown one
StreamLens == {0, 1, 2, 4, 24, 71}      \* declared payload lengths
Slacks == {-1, 0, 3}                    \* decoded_len - (hdr + stream_len)
SeedChoices == {0, 1, 7, 8}             \* 8: no seed of the table matches
Patterns == {"low", "high"}
Tails == {0, 238}                       \* uninitialised rest of b[]
ShortLens == {-1, 0, 3, 4}              \* failed or too short extraction

FrameParams ==
    {[type |-> 42, sub |-> sub, slen |-> slen, p |-> p, seed |-> seed,
      len |-> (IF sub = 210 THEN 5 ELSE 6) + slen + slack, tail |-> tail] :
        sub \in Subtypes, slen \in StreamLens, p \in Patterns,
        seed \in SeedChoices, slack \in Slacks, tail \in Tails}
    \cup
    {[type |-> type, sub |-> 85, slen |-> 4, p |-> "low", seed |-> 0,
      len |-> len, tail |-> tail] :
        type \in {42, 23}, len \in ShortLens \cup {5, 10}, tail \in Tails}

IdleDecoder ==
    /\ b = << >>
    /\ b_rest = 0
    /\ decoded_len = 0
    /\ pc = "idle"
    /\ stream_len = 0
    /\ crc = 0
    /\ crc_count = 0
    /\ crc_ok = FALSE
    /\ crc_calls = << >>
    /\ reads = {}
    /\ data = DataUninit
    /\ sink = << >>
    /\ ret = "none"

\* Entry of gridstream_decode: the locals as declared (lines 58-74).
InitDecoder ==
    /\ \E f \in FrameParams :
         /\ b = Buffer(f.type, f.sub, f.slen, f.p, f.seed, f.len)
         /\ b_rest = f.tail
         /\ decoded_len = f.len
    /\ pc = "entry"
    /\ stream_len = 0
    /\ crc = 0
    /\ crc_count = 0
    /\ crc_ok = FALSE
    /\ crc_calls = << >>
    /\ reads = {}
    /\ data = DataUninit
    /\ sink = << >>
    /\ ret = "none"

(***************************************************************************)
(* Specifications                                                          *)
(***************************************************************************)
Init == InitDecoder /\ IdleFilter /\ IdleDemod

Next ==
    \/ SanityCheck
    \/ SwitchType
    \/ SwitchSubtype
    \/ ReadLength
    \/ ReadTrailer
    \/ CrcPass
    \/ CrcPassWild
    \/ CrcDone
    \/ MakeData
    \/ OutputData
    \/ OutputDataWild

Spec == Init /\ [][Next]_vars

InitFilter ==
    /\ lpf_state \in InitFilterStates
    /\ lpf_init = lpf_state
    /\ lpf_in = << >>
    /\ lpf_out = << >>
    /\ lpf_lens = << >>
    /\ lpf_fault = "none"
    /\ IdleDecoder
    /\ IdleDemod

FilterCall ==
    \E x_buf \in Batches(SampleVals, MaxBatch) : LowPassFilter(x_buf)

FilterCallShort ==
    \E x_buf \in Batches(SampleVals, MaxBatch) :
        \E gx \in GarbageVals, gy \in GarbageVals :
            LowPassFilterShort(x_buf, gx, gy)

FilterCallCrash ==
    \E x_buf \in Batches(SampleVals, MaxBatch) : LowPassFilterCrash(x_buf)

NextFilter ==
    \/ FilterCall
    \/ FilterCallShort
    \/ FilterCallCrash

SpecFilter == InitFilter /\ [][NextFilter]_vars

InitDemod ==
    /\ fm_state \in InitDemodStates
    /\ fm_init = [state |-> fm_state, locals |-> CHOOSE l \in StackVals : TRUE]
    /\ fm_in = << >>
    /\ fm_out = << >>
    /\ fm_lens = << >>
    /\ fm_stack \in StackVals
    /\ IdleDecoder
    /\ IdleFilter

DemodCall ==
    \E x_buf \in Batches(IQVals, MaxFmBatch) :
        \E loc \in StackVals \cup {fm_stack} : DemodFM(x_buf, loc)

NextDemod == DemodCall

SpecDemod == InitDemod /\ [][NextDemod]_vars

(***************************************************************************)
(* Properties                                                              *)
(***************************************************************************)
\* The frame as the protocol reads it, straight from b and decoded_len.
KnownSubtype == B(3) \in {85, 210, 213}
DeclaredLen == IF Hdr = 6 THEN BE16(4) ELSE B(4)
GuardsPass ==
    /\ decoded_len >= 5
    /\ B(2) = 42
    /\ KnownSubtype
    /\ decoded_len - Hdr >= DeclaredLen

\* The decoder is past its length guard.
PastGuard == pc \in {"trailer", "crc_loop", "crc_done", "make", "output",
                     "returned"}

\* The CRC body bytes[hdr : hdr - 2 + streamLen] and the trailer after it.
BodyLen == IF DeclaredLen >= 2 THEN DeclaredLen - 2 ELSE 0
Trailer == BE16(Hdr - 2 + DeclaredLen)
SeedMatches(k) ==
    crc16(Bytes(Hdr, BodyLen), BodyLen, 4129, known_crc_init[k + 1]) = Trailer
NoSeedMatches == \A k \in 0..(NumSeeds - 1) : ~SeedMatches(k)

\* The frame declares a CRC body and holds every byte the record is built
\* from (up to byte 29, up to byte 37 for 0xD5 with stream_len 0x47).
FrameComplete ==
    /\ DeclaredLen >= 2
    /\ decoded_len >= (IF B(3) = 213 /\ DeclaredLen = 71 THEN 38 ELSE 30)

\* Fields of an emitted record.
Keys(d) == {d.fields[i].key : i \in 1..Len(d.fields)}
FieldOf(d, key) ==
    d.fields[CHOOSE i \in 1..Len(d.fields) : d.fields[i].key = key]
HasString(d, key, text) ==
    /\ key \in Keys(d)
    /\ FieldOf(d, key).type = "DATA_STRING"
    /\ FieldOf(d, key).value.s = text
HasInt(d, key, v) ==
    /\ key \in Keys(d)
    /\ FieldOf(d, key).type = "DATA_INT"
    /\ AsInt(FieldOf(d, key).value) = v

\* C1: the outputs of the calls so far, in order, are the outputs of one
\* call on all the input from the same initial FilterState (streaming
\* equivalence), here for calls that each respect len > FILTER_ORDER.
C1_StreamingEquivalence ==
    lpf_fault = "none" =>
        lpf_out = LpfBuf(lpf_in, lpf_init, Len(lpf_in))

\* C8: after a call with len > FILTER_ORDER the state holds the last input
\* sample x_buf[len-1] and the last output sample y_buf[len-1].
C8_StateHoldsLastSamples ==
    (lpf_lens # << >> /\ Last(lpf_lens) > FILTER_ORDER
        /\ lpf_fault # "crash") =>
        /\ lpf_state.x = ToInt16(Last(lpf_in))
        /\ lpf_state.y = Last(lpf_out)

\* C7: the outputs of the demodulator calls so far, in order, are the outputs
\* of one call on all the IQ samples from the same initial DemodFM_State
\* (and the same initial content of the locals).
C7_DemodStreamingEquivalence ==
    fm_out = DemodBuf(fm_in, DemodEntry(fm_init.state, fm_init.locals))

\* C6: a frame with decoded_len < 5 returns DECODE_FAIL_SANITY and the
\* decoder has read no byte of b, run no CRC pass and emitted no record.
C6_SanityGuard ==
    decoded_len < 5 =>
        /\ pc \in {"entry", "returned"}
        /\ pc = "returned" => ret = "DECODE_FAIL_SANITY"
        /\ reads = {}
        /\ crc_calls = << >>
        /\ sink = << >>

\* A frame of 3 or 4 bytes whose type byte is 0x2A was turned away.
C6_Witness ==
    /\ decoded_len \in {3, 4}
    /\ B(2) = 42
    /\ pc = "returned"
    /\ ret = "DECODE_FAIL_SANITY"

\* C2: a frame of decoded_len >= 5 with a wrong type byte, or a declared
\* length beyond the frame, returns DECODE_ABORT_LENGTH with no CRC pass, no
\* record, and no read of b at an index >= decoded_len.
C2_LengthFailure ==
    (decoded_len >= 5 /\ pc = "returned"
        /\ (B(2) # 42 \/ (KnownSubtype /\ decoded_len - Hdr < DeclaredLen))) =>
        /\ ret = "DECODE_ABORT_LENGTH"
        /\ crc_calls = << >>
        /\ sink = << >>
        /\ \A i \in reads : i < decoded_len

\* C3: past the length guard the seeds are tried in table order, the table
\* is never indexed at 8 or more, at most 8 passes are made, the search
\* stops at the first match, and the decoder returns DECODE_FAIL_MIC with
\* no record exactly when no seed matches.
C3_SeedSearch ==
    (GuardsPass /\ PastGuard) =>
        /\ \A j \in 1..Len(crc_calls) :
              crc_calls[j].index = j - 1 /\ crc_calls[j].index < NumSeeds
        /\ Len(crc_calls) <= NumSeeds
        /\ crc_ok => SeedMatches(crc_count)
        /\ \A j \in 1..Len(crc_calls) :
              (j < Len(crc_calls) \/ ~crc_ok) => ~SeedMatches(j - 1)
        /\ pc = "returned" =>
              ((ret = "DECODE_FAIL_MIC" /\ sink = << >>) <=> NoSeedMatches)

\* C4: a 0x55 frame that passed the guards and matched a seed has emitted
\* exactly one record with subtype 0x55, the hex addresses of bytes 7..12,
\* 13..18, 26..29, and uptime the unsigned 32-bit value of bytes 20..23.
\* Stated for the frames that hold all these bytes and a CRC body.
C4_Subtype55Record ==
    (GuardsPass /\ FrameComplete /\ B(3) = 85 /\ crc_ok
        /\ pc = "returned") =>
        /\ Len(sink) = 1
        /\ HasInt(sink[1], "subtype", 85)
        /\ HasString(sink[1], "destaddress", HexOf(<<7, 8, 9, 10, 11, 12>>))
        /\ HasString(sink[1], "wanaddress",
                     HexOf(<<13, 14, 15, 16, 17, 18>>))
        /\ HasString(sink[1], "id", HexOf(<<26, 27, 28, 29>>))
        /\ "uptime" \in Keys(sink[1])
        /\ FieldOf(sink[1], "uptime").type = "DATA_INT"
        /\ FieldOf(sink[1], "uptime").value.hi = BE16(20)
        /\ FieldOf(sink[1], "uptime").value.lo = BE16(22)
        /\ AsInt(FieldOf(sink[1], "uptime").value) >= 0

\* C5: the record of a successfully decoded 0xD5 frame has the fields
\* timestamp, uptime, wanaddress exactly when stream_len = 0x47, and
\* otherwise only model, id (bytes 26..29), subtype, destaddress (bytes
\* 7..10) and mic. Stated for the frames that hold all these bytes and a
\* CRC body.
C5_SubtypeD5Branching ==
    (GuardsPass /\ FrameComplete /\ B(3) = 213 /\ pc = "returned"
        /\ ret = "1") =>
        /\ Len(sink) = 1
        /\ Keys(sink[1]) =
              {"model", "id", "subtype", "destaddress", "mic"}
              \cup (IF stream_len = 71
                    THEN {"timestamp", "uptime", "wanaddress"} ELSE {})
        /\ HasString(sink[1], "id", HexOf(<<26, 27, 28, 29>>))
        /\ HasString(sink[1], "destaddress", HexOf(<<7, 8, 9, 10>>))

\* C9: the decoder returns 1 or hands anything to the sink only for type
\* 0x2A, a subtype among 0x55, 0xD2, 0xD5, and a matched seed.
C9_SuccessImpliesValidation ==
    (ret = "1" \/ sink # << >>) =>
        /\ B(2) = 42
        /\ KnownSubtype
        /\ crc_ok

\* C10: past the sanity and length guards stream_len - 2 is not negative
\* and every byte of b read (body, trailer, fields) has an index below
\* decoded_len.
C10_InBoundsReads ==
    (GuardsPass /\ PastGuard) =>
        /\ stream_len - 2 >= 0
        /\ \A i \in reads : i < decoded_len

====
